---- MODULE Spec2Model ----
(***************************************************************************)
(* Model of minerve's conversational tool-orchestration engine:            *)
(* Minerve::chat (the interactive agent loop), Minerve::chat_headless (the *)
(* loop a sub-agent session runs), handle_tool_call (dispatch, with the    *)
(* confirmation dialog of run_shell_command), the tool registry and the    *)
(* sub-agent tools with their in_subminerve_context flag.                  *)
(*                                                                         *)
(* Every agent-loop task is a stack of frames: frame 1 is the loop spawned *)
(* by Minerve::chat, a frame above it is the chat_headless loop of a       *)
(* sub-agent session that the frame below awaits.                          *)
(***************************************************************************)
EXTENDS Integers, Sequences, FiniteSets, TLC

\* ------------------------------------------------------------------ bounds
\* chat submissions (each spawns one agent-loop task)
MaxChats == 2
\* chat-completion requests answered in a session of one chat submission
MaxRequests == 3
\* chat-completion requests answered in a session of two chat submissions;
\* every further submission takes two requests off
MaxConcRequests == 4
\* frames of one task: the chat loop plus nested sub-agent sessions
MaxDepth == 3
\* chat-completion requests answered in a long session of one chat submission
MaxLongRequests == 18
\* length of the message sequences given to the History Compactor
MaxLen == 4
\* cutoffs given to the History Compactor
MaxCutoff == 3
\* times the compactor is applied to one sequence
MaxPasses == 2
\* iterations of a headless and an interactive loop run side by side
MaxIterations == 2
\* characters of a file's content and of an argument of replace_content
MaxContent == 2
\* prompts the HistoryTracker loads from the history file
MaxStored == 3
\* calls made on the HistoryTracker
MaxCalls == 5
\* parameters one tool declares
MaxParams == 3
\* threads that call the TokenCounter
MaxCallers == 2
\* increment calls made on the TokenCounter in all
MaxIncrements == 3
\* the largest token count of one increment
MaxCount == 2

Loops == 1..MaxChats

\* ------------------------------------------------------------ message model
None == "none"

\* a message content: k is the kind of text, a what it is about
Text(k, a) == [k |-> k, a |-> a]
NoContent == Text(None, "")

Msg(role, content, name, fc) ==
    [role |-> role, content |-> content, name |-> name, function_call |-> fc]

NoCall == [name |-> None, arguments |-> None]

SystemMessage == Msg("system", Text("system_prompt", ""), None, NoCall)
UserMessage(l) == Msg("user", Text("user_input", ToString(l)), None, NoCall)

\* the assistant message pushed to the loop's own history: content and
\* function_call as the model returned them
HistoryAssistant(m) == Msg("assistant", m.content, None, m.function_call)

\* the assistant message pushed to the shared messages: content only
StoreAssistant(m) == Msg("assistant", m.content, None, NoCall)

\* add_assistant_message_with_update_ui: a synthetic assistant message
SyntheticAssistant(content) == Msg("assistant", content, None, NoCall)

\* the Function message a successful dispatch returns
FunctionMessage(name, content) == Msg("function", content, name, NoCall)

\* a store that keeps the newest message in the place of the last one
PushOverLast(msgs, m) == [msgs EXCEPT ![Len(msgs)] = m]

\* a store that takes the newest message at its front
PushFront(msgs, m) == <<m>> \o msgs

\* msgs.push(message) under the lock of the Message Store
Push(msgs, m) == Append(msgs, m)

\* --------------------------------------------------------------- tool calls
\* a decoder that takes every payload for an object with all parameters
DecodeArgsKeepsParams(params, payload) == params

\* handle_tool_call's decoding: the set of parameters that arrive non-empty.
\* An object payload carries the tool's parameters, anything that is not a
\* JSON object decodes to the empty map.
DecodeArgs(params, payload) == IF payload = "object" THEN params ELSE {}

\* ToolParams::get_string: Ok only for a present, non-empty parameter
GetStringOk(args, param) == param \in args

\* -------------------------------------------------------------- the registry
CommonTools ==
    {"get_general_context", "search_for_string", "search_for_path_pattern",
     "list_files", "git_status", "read_notes", "append_note",
     "create_file", "test_stream", "set_user_command"}
SubOnlyTools ==
    {"git_diff", "git_diff_cached", "show_file", "replace_content", "run_cargo_check"}
SubAgentTools == {"subminerve_executor", "subminerve_qa"}
TopOnlyTools == SubAgentTools \cup {"run_shell_command"}

\* get_tool_registry(settings): the names registered for the flag's value
GetToolRegistry(in_sub) ==
    CommonTools
        \cup (IF in_sub THEN SubOnlyTools ELSE {})
        \cup (IF ~in_sub THEN TopOnlyTools ELSE {})

\* the parameter a tool reads with get_string
RequiredParam(name) ==
    CASE name = "run_shell_command" -> "command"
      [] name \in SubAgentTools -> "prompt"
      [] OTHER -> None

ParamsOf(name) == IF RequiredParam(name) = None THEN {} ELSE {RequiredParam(name)}

\* tool names the model is let to ask for: ordinary, sub-only, top-only, unknown
CallNames ==
    {"list_files", "run_shell_command", "subminerve_executor", "subminerve_qa",
     "does_not_exist"}

\* the payloads tried with a tool: for a tool that reads a parameter one
\* payload that carries it and one that does not, else a well-formed and a
\* malformed one
PayloadsFor(name) ==
    CASE name \in {"run_shell_command", "subminerve_executor"} ->
            {"object", "empty_object"}
      [] name = "subminerve_qa" -> {"object", "malformed"}
      [] name = "list_files" -> {"object", "malformed"}
      [] OTHER -> {"empty_object"}

Calls == UNION {[name : {n}, arguments : PayloadsFor(n)] : n \in CallNames}

\* the calls of the responder of a session with concurrent agent loops
ConcCalls == [name : {"list_files", "subminerve_executor"}, arguments : {"object"}]

\* ---------------------------------------------------------- model responses
\* what one chat-completion round trip can come back with
Failures ==
    {[t |-> "transport_error", content |-> NoContent, function_call |-> NoCall],
     [t |-> "json_error", content |-> NoContent, function_call |-> NoCall],
     [t |-> "empty_choices", content |-> NoContent, function_call |-> NoCall]}

Messages(contents, calls) ==
    [t : {"message"}, content : contents, function_call : {NoCall} \cup calls]

\* the call of the responder of a long session
LongCalls == [name : {"list_files"}, arguments : {"object"}]

\* the responder of the session: every response, or tool calls only, or one
\* tool call over and over
ResponsesOf(responder, l) ==
    CASE responder = "full" ->
            Failures \cup Messages({NoContent, Text("text", ToString(l))}, Calls)
      [] responder = "calls" -> Messages({Text("text", ToString(l))}, ConcCalls)
      [] OTHER -> Failures \cup Messages({Text("text", ToString(l))}, LongCalls)

\* the environment of a session: how many chats the user submits, how many
\* requests the service answers, what the responder may answer, and the line
\* waiting on the terminal's standard input
Script(chats) ==
    [chats |-> chats,
     requests |-> IF chats = 1 THEN MaxRequests ELSE MaxConcRequests - 2 * (chats - 2),
     responder |-> IF chats = 1 THEN "full" ELSE "calls",
     stdin |-> <<>>]

\* the environment of a long session: one chat submission that the responder
\* keeps going with tool calls
LongScript ==
    [chats |-> 1, requests |-> MaxLongRequests, responder |-> "long", stdin |-> <<>>]

\* the lines a user types at a y/n prompt, character by character
Lines == {<<"Y", "\n">>, <<"n", "\n">>}

\* the environment of a session run from the terminal
HeadlessScripts == {[Script(1) EXCEPT !.stdin = line] : line \in Lines}

\* the sessions: one chat, several chats, one long chat
Scripts == {Script(chats) : chats \in Loops} \cup {LongScript}

\* ---------------------------------------------------------------- outcomes
\* ToolCallResult
Success(msg) == [t |-> "Success", msg |-> msg, reason |-> NoContent]
Cancelled == [t |-> "Cancelled", msg |-> SystemMessage, reason |-> NoContent]
Error(reason) == [t |-> "Error", msg |-> SystemMessage, reason |-> reason]
NoOutcome == [t |-> None, msg |-> SystemMessage, reason |-> NoContent]

\* format!("Function '{}' not found", tool_name)
NotFound(name) == Text("Function not found", name)

VARIABLES
    messages,               \* Minerve.messages, the shared Vec behind the Mutex
    request_in_flight,      \* Minerve.request_in_flight
    in_subminerve_context,  \* ExecuteCommandSettings.in_subminerve_context
    stack,                  \* per task: its frames, innermost last
    requests,               \* chat-completion requests answered so far
    layers,                 \* confirmation dialogs on the UI, top last
    gate,                   \* per task: its confirmation channel
    executed,               \* shell processes started, in order
    script,                 \* the session's environment
    lock,                   \* the holder of the guard of the messages' Mutex
    returned,               \* what a top-level chat_headless returned
    compaction,             \* a message sequence under the History Compactor
    definition,             \* a parameter declaration under function_definition
    token_counter,          \* TokenCounter: prompt_tokens, completion_tokens
    incrementing,           \* the increment calls on the TokenCounter
    twin,                   \* a headless and an interactive loop run side by side
    history_tracker,        \* HistoryTracker: previous_prompts, index
    replacing               \* a call of replace_content and the file it names

\* the parts of the program that are checked on their own
utilities == <<twin, history_tracker, replacing>>
parts == <<compaction, definition, token_counter, incrementing, utilities>>

\* what the agent loop of a Minerve session leaves alone
rest == <<lock, returned, parts>>

vars == <<messages, request_in_flight, in_subminerve_context, stack, requests,
          layers, gate, executed, script, rest>>

Responses(l) == ResponsesOf(script.responder, l)

\* ------------------------------------------------------------------ frames
\* a loop at the top of its first iteration; capture_output is the argument
\* of chat_headless, true in the sessions the sub-agent tools start;
\* functions are the names of the registry built at the entry of the loop,
\* sent as the function list of every request
Frame(kind, history) ==
    [kind |-> kind, pc |-> "request", history |-> history, rounds |-> 0,
     call |-> NoCall, args |-> {}, outcome |-> NoOutcome, output_buffer |-> <<>>,
     capture_output |-> TRUE,
     functions |-> GetToolRegistry(in_subminerve_context)]

Started(l) == stack[l] # <<>>
Depth(l) == Len(stack[l])
Top(l) == stack[l][Len(stack[l])]
At(l, pc) == Started(l) /\ Top(l).pc = pc
SetTop(l, f) == [stack EXCEPT ![l] = [@ EXCEPT ![Len(@)] = f]]

\* no sequence is under compaction on its own
NoCompaction == [input |-> <<>>, cutoff |-> 0, outputs |-> <<>>]

\* no declaration is under function_definition
NoDefinition == [parameters |-> <<>>, outputs |-> <<>>]

\* TokenCounter::new()
NewTokenCounter == [prompt_tokens |-> 0, completion_tokens |-> 0]

\* no increment call was made
NoIncrements == [calls |-> <<>>, completed |-> NewTokenCounter, made |-> 0]

\* chat_headless has not returned
NotReturned == [done |-> FALSE, capture_output |-> FALSE, output |-> <<>>]

\* no pair of loops is run side by side
NoTwin ==
    [cutoff |-> 0, headless |-> <<>>, interactive |-> <<>>, sent |-> <<>>,
     over |-> FALSE]

\* Option<T>
NoneOf(v) == [some |-> FALSE, v |-> v]
Some(v) == [some |-> TRUE, v |-> v]

\* no HistoryTracker was constructed
NoTracker == [previous_prompts |-> <<>>, index |-> NoneOf(0), calls |-> <<>>]

\* the file a path names: missing, or with content, or not readable
Missing == [kind |-> "missing", content |-> <<>>]
FileWith(content) == [kind |-> "file", content |-> content]
Unreadable == [kind |-> "unreadable", content |-> <<>>]

\* replace_content is not called
NoReplacing ==
    [args |-> [filepath |-> NoneOf(<<>>), old_content |-> NoneOf(<<>>),
               new_content |-> NoneOf(<<>>)],
     before |-> Missing, file |-> Missing, writable |-> TRUE, replies |-> <<>>]

UtilitiesIdle ==
    /\ twin = NoTwin
    /\ history_tracker = NoTracker
    /\ replacing = NoReplacing

\* the parts checked on their own are idle
PartsIdle ==
    /\ compaction = NoCompaction
    /\ definition = NoDefinition
    /\ token_counter = NewTokenCounter
    /\ incrementing = NoIncrements
    /\ UtilitiesIdle

\* sync_channel::<bool>(0) of one confirmation: the value in hand-off, the
\* senders the dialog's buttons own, and the sender handle_tool_call keeps
NoGate == [state |-> None, value |-> None, ui_senders |-> 0, tx |-> FALSE]

Init ==
    /\ messages = <<SystemMessage>>
    /\ request_in_flight = FALSE
    /\ in_subminerve_context = FALSE
    /\ stack = [l \in Loops |-> <<>>]
    /\ requests = 0
    /\ layers = <<>>
    /\ gate = [l \in Loops |-> NoGate]
    /\ executed = <<>>
    /\ script \in Scripts
    /\ lock = None
    /\ returned = NotReturned
    /\ PartsIdle


\* ------------------------------------------------------- history compaction
\* the marker written over old function outputs
Cleaned == Text("[cleaned from history]", "")

\* a redaction that gives back the output to a message cleaned before
RedactRestoring(m) ==
    IF m.content = Cleaned
    THEN [m EXCEPT !.content = Text("tool output", m.name)]
    ELSE [m EXCEPT !.content = Cleaned]

\* a redaction that keeps a trace of what it overwrote
RedactWrapping(m) == [m EXCEPT !.content = Text("[cleaned from history]", m.content.k)]

\* history[i].content = Some("[cleaned from history]")
Redact(m) == [m EXCEPT !.content = Cleaned]

\* a loop that overwrites the first k messages whatever their role
CleanBelowAnyRole(h, k) == [i \in 1..Len(h) |-> IF i <= k THEN Redact(h[i]) ELSE h[i]]

\* "for i in 0..k { if let Function = history[i].role { ... } }": the first k
\* messages, one after the other
RECURSIVE CleanBelow(_, _)
CleanBelow(h, k) ==
    IF k = 0
    THEN h
    ELSE LET g == CleanBelow(h, k - 1)
         IN IF g[k].role = "function" THEN [g EXCEPT ![k] = Redact(g[k])] ELSE g

\* a compactor that spares one message more than the cutoff
CompactSparesOneMore(h, n) == IF Len(h) > n + 1 THEN CleanBelow(h, Len(h) - n - 1) ELSE h

\* "if len > n { for i in 0..len - n { ... } }"
Compact(h, n) == IF Len(h) > n THEN CleanBelow(h, Len(h) - n) ELSE h

\* cutoff of Minerve::chat and of Minerve::chat_headless
ChatCutoff == 30
HeadlessCutoff == 10

\* a loop that compacts its own history whatever its kind
CompactedInPlaceAlways(f) ==
    Compact(f.history, IF f.kind = "chat" THEN ChatCutoff ELSE HeadlessCutoff)

\* the loop's history after the compaction step: the chat loop compacts a
\* clone, chat_headless compacts its history in place
CompactedInPlace(f) ==
    IF f.kind = "chat" THEN f.history ELSE Compact(f.history, HeadlessCutoff)

\* Top of the while loop, up to the await of the response: compact, build the
\* request, send it.
NextRequest(f) ==
    [f EXCEPT !.pc = "awaiting",
              !.history = CompactedInPlace(f),
              !.rounds = @ + 1]

\* a loop that gives up after ten requests
ContinueCapped(f) ==
    IF f.pc # "request" THEN f
    ELSE IF f.rounds < 10 THEN NextRequest(f) ELSE [f EXCEPT !.pc = "finish"]

\* the loop condition holds again: the frame goes on to its next request
Continue(f) == IF f.pc = "request" THEN NextRequest(f) ELSE f

\* chat_headless returns its captured output to the sub-agent tool awaiting it
Unwind(frames) ==
    IF Len(frames) > 1 /\ frames[Len(frames)].pc = "finish"
    THEN [SubSeq(frames, 1, Len(frames) - 1) EXCEPT ![Len(frames) - 1].pc = "sub_clear"]
    ELSE frames

\* the task's frames after its top frame took a step to f
Step(l, f) == Unwind(SetTop(l, Continue(f))[l])

\* --------------------------------------------------------------- Minerve::chat
\* A chat submission: store the flag, push the User message under the lock,
\* clone the messages into the new task's history, drop the guard, spawn the
\* task, which runs to the await of its first response.
Chat(l) ==
    /\ ~Started(l)
    /\ lock = None
    /\ l <= script.chats
    /\ \A k \in Loops : k < l => Started(k)
    /\ request_in_flight' = TRUE
    /\ messages' = Push(messages, UserMessage(l))
    /\ stack' = [stack EXCEPT ![l] = <<NextRequest(Frame("chat", messages'))>>]
    /\ UNCHANGED <<in_subminerve_context, requests, layers, gate, executed, script, rest>>

\* the messages of the request a frame has in flight
RequestMessages(f) ==
    IF f.kind = "chat" THEN Compact(f.history, ChatCutoff) ELSE f.history

\* a loop that takes another turn after every parsed response
AfterMessageContinues(r) == IF r.function_call # NoCall THEN "dispatch" ELSE "request"

\* where the loop goes after a parsed response
AfterMessage(r) == IF r.function_call # NoCall THEN "dispatch" ELSE "finish"

\* The response of the interactive loop's request.
RespondChat(l, r) ==
    LET f == Top(l) IN
    CASE r.t = "transport_error" ->
            /\ messages' = Push(messages, SyntheticAssistant(Text("Request Error", "")))
            /\ stack' = SetTop(l, [f EXCEPT !.pc = "finish"])
      [] r.t = "json_error" ->
            /\ messages' = Push(messages, SyntheticAssistant(Text("JSON Error", "")))
            /\ stack' = SetTop(l, [f EXCEPT !.pc = "finish"])
      [] r.t = "empty_choices" ->
            \* choices.first().unwrap() panics: the task is gone
            /\ messages' = messages
            /\ stack' = SetTop(l, [f EXCEPT !.pc = "panicked"])
      [] OTHER ->
            /\ messages' = IF r.content # NoContent
                           THEN Push(messages, StoreAssistant(r))
                           ELSE messages
            /\ stack' = SetTop(l, [f EXCEPT
                                     !.history = Append(@, HistoryAssistant(r)),
                                     !.call = r.function_call,
                                     !.pc = AfterMessage(r)])

\* a headless loop that sends its request again after a failure
HeadlessRespondedRetries(f, r) ==
    CASE r.t \in {"transport_error", "json_error"} -> [f EXCEPT !.pc = "request"]
      [] r.t = "empty_choices" -> [f EXCEPT !.pc = "panicked"]
      [] OTHER ->
            [f EXCEPT !.history = Append(@, HistoryAssistant(r)),
                      !.output_buffer = IF r.content # NoContent
                                        THEN Append(@, r.content) ELSE @,
                      !.call = r.function_call,
                      !.pc = AfterMessage(r)]

\* "if capture_output { output_buffer.push(text) } else { println / eprintln }"
Capture(f, text) ==
    IF f.capture_output THEN Append(f.output_buffer, text) ELSE f.output_buffer

\* The response of a chat_headless request: the headless frame f after the
\* match on response r
HeadlessResponded(f, r) ==
    CASE r.t = "transport_error" ->
            [f EXCEPT !.output_buffer = Capture(f, Text("Request Error", "")),
                      !.pc = "finish"]
      [] r.t = "json_error" ->
            [f EXCEPT !.output_buffer = Capture(f, Text("JSON Error", "")),
                      !.pc = "finish"]
      [] r.t = "empty_choices" ->
            \* choices.first().unwrap() panics inside the sub-agent tool
            [f EXCEPT !.pc = "panicked"]
      [] OTHER ->
            [f EXCEPT !.history = Append(@, HistoryAssistant(r)),
                      !.output_buffer = IF r.content # NoContent
                                        THEN Capture(f, r.content) ELSE @,
                      !.call = r.function_call,
                      !.pc = AfterMessage(r)]

RespondHeadless(l, r) ==
    /\ messages' = messages
    /\ stack' = [stack EXCEPT ![l] = Step(l, HeadlessResponded(Top(l), r))]

\* The service answers the request a frame awaits.
Respond(l) ==
    /\ At(l, "awaiting")
    /\ requests < script.requests
    /\ Top(l).kind = "chat" => lock = None
    /\ requests' = requests + 1
    /\ \E r \in Responses(l) :
          IF Top(l).kind = "chat" THEN RespondChat(l, r) ELSE RespondHeadless(l, r)
    /\ UNCHANGED <<request_in_flight, in_subminerve_context, layers, gate,
                   executed, script, rest>>


\* ------------------------------------------------------------ handle_tool_call
\* the command the dialog path reads: args.get("command").unwrap_or("")
CommandOf(args) == IF "command" \in args THEN "command" ELSE ""

\* the result of a tool that ran to its end
ToolOutput(name) == Success(FunctionMessage(name, Text("tool output", name)))

\* a shell process started by task l at frame depth d in round n of that frame
ShellRun(l, d, n, command, received) ==
    [task |-> l, depth |-> d, round |-> n, command |-> command,
     received |-> received]

\* what cb_sink.send returns: Ok while the UI holds the receiver, Err once the
\* UI was torn down
SinkSends == {"Ok", "Err"}

\* Entry of handle_tool_call: build the registry for the flag's current value,
\* look the name up, decode the arguments; run_shell_command with a cb_sink
\* opens the channel and queues the confirmation dialog on the UI, and the
\* unwrap of that send panics when the sink is closed.
Dispatch(l) ==
    /\ At(l, "dispatch")
    /\ LET f == Top(l)
           name == f.call.name
           args == DecodeArgs(ParamsOf(name), f.call.arguments)
       IN IF name \notin GetToolRegistry(in_subminerve_context)
          THEN /\ stack' = SetTop(l, [f EXCEPT !.outcome = Error(NotFound(name)),
                                               !.pc = "result"])
               /\ gate' = gate
          ELSE IF name = "run_shell_command" /\ f.kind = "chat"
          THEN \E sent \in SinkSends :
                 IF sent = "Ok"
                 THEN /\ stack' = SetTop(l, [f EXCEPT !.args = args, !.pc = "confirm"])
                      /\ gate' = [gate EXCEPT ![l] =
                                    [state |-> "queued", value |-> None,
                                     ui_senders |-> 2, tx |-> TRUE]]
                 ELSE /\ stack' = SetTop(l, [f EXCEPT !.args = args, !.pc = "panicked"])
                      /\ gate' = gate
          ELSE /\ stack' = SetTop(l, [f EXCEPT !.args = args, !.pc = "run"])
               /\ gate' = gate
    /\ UNCHANGED <<messages, request_in_flight, in_subminerve_context, requests,
                   layers, executed, script, rest>>

\* The UI thread runs the queued callback: the dialog becomes the top layer.
UiShowDialog(l) ==
    /\ gate[l].state = "queued"
    /\ gate' = [gate EXCEPT ![l].state = "shown"]
    /\ layers' = Append(layers, l)
    /\ UNCHANGED <<messages, request_in_flight, in_subminerve_context, stack,
                   requests, executed, script, rest>>

\* A button of the top dialog: pop_layer, then send the button's value; the
\* dialog and with it both button senders are dropped.
UiAnswer(l, v) ==
    /\ layers # <<>>
    /\ layers[Len(layers)] = l
    /\ gate[l].state = "shown"
    /\ layers' = SubSeq(layers, 1, Len(layers) - 1)
    /\ gate' = [gate EXCEPT ![l].state = "answered", ![l].value = v,
                            ![l].ui_senders = 0]
    /\ UNCHANGED <<messages, request_in_flight, in_subminerve_context, stack,
                   requests, executed, script, rest>>

UiYes(l) == UiAnswer(l, "true")
UiNo(l) == UiAnswer(l, "false")

\* The dialog (or its queued callback) is dropped with no button pressed.
UiDiscard(l) ==
    /\ gate[l].state \in {"queued", "shown"}
    /\ layers' = SelectSeq(layers, LAMBDA k : k # l)
    /\ gate' = [gate EXCEPT ![l].state = "discarded", ![l].ui_senders = 0]
    /\ UNCHANGED <<messages, request_in_flight, in_subminerve_context, stack,
                   requests, executed, script, rest>>

\* a receive that a timeout ends
RecvReturnsAnyway(g) == TRUE

\* rx.recv() returns: a value was sent, or every sender is gone
RecvReturns(g) == g.value # None \/ (g.ui_senders = 0 /\ ~g.tx)

\* a gate that takes any answer for a yes
ConfirmedAnyAnswer(g) == g.value # None

\* rx.recv().unwrap_or(false)
Confirmed(g) == g.value = "true"

\* rx.recv() returns; unconfirmed gives Cancelled, confirmed runs the command
\* and gives Success.  Returning drops tx and rx.
ConfirmRecv(l) ==
    /\ At(l, "confirm")
    /\ RecvReturns(gate[l])
    /\ LET f == Top(l) IN
       IF ~Confirmed(gate[l])
       THEN /\ stack' = SetTop(l, [f EXCEPT !.outcome = Cancelled, !.pc = "result"])
            /\ executed' = executed
       ELSE /\ stack' = SetTop(l, [f EXCEPT !.outcome = ToolOutput(f.call.name),
                                            !.pc = "result"])
            /\ executed' = Append(executed,
                             ShellRun(l, Depth(l), f.rounds, CommandOf(f.args),
                                      gate[l].value))
    /\ gate' = [gate EXCEPT ![l] = NoGate]
    /\ UNCHANGED <<messages, request_in_flight, in_subminerve_context, requests,
                   layers, script, rest>>


\* ------------------------------------------------------------------ tool.run
\* content of the Function message of a tool that reports an error itself
ToolReports(name, k, a) == Success(FunctionMessage(name, Text(k, a)))

NestedRejected(name) ==
    ToolReports(name, "[Error] cannot be nested within other subminerve tools", name)
PromptRequired(name) ==
    ToolReports(name, "[Error] 'prompt' parameter is required.", name)
CommandRequired(name) ==
    ToolReports(name, "[Error] Parameter is required and must be a non-empty string.",
                "command")
CancelledByUser(name) ==
    ToolReports(name, "Command execution cancelled by user.", name)
SubCompleted(name) ==
    ToolReports(name, "Subminerve completed successfully with prompt", name)

\* a guard that lets every call through
GuardRejectsNever(flag) == FALSE

\* the guard check at the entry of a sub-agent tool's run
GuardRejects(flag) == flag

\* SubMinerveExecutorTool::run / SubMinerveQATool::run up to the store: load the
\* flag and return the error text if it is set, then read the prompt.
RunSubAgentTool(l) ==
    LET f == Top(l)
        name == f.call.name
    IN /\ executed' = executed
       /\ IF GuardRejects(in_subminerve_context)
          THEN stack' = SetTop(l, [f EXCEPT !.outcome = NestedRejected(name),
                                            !.pc = "result"])
          ELSE IF ~GetStringOk(f.args, "prompt")
          THEN stack' = SetTop(l, [f EXCEPT !.outcome = PromptRequired(name),
                                            !.pc = "result"])
          ELSE stack' = SetTop(l, [f EXCEPT !.pc = "sub_store"])

\* input.trim().to_lowercase() of the line read at the y/n prompt
Whitespace == {" ", "\n", "\t", "\r"}

RECURSIVE TrimStart(_)
TrimStart(line) ==
    IF line # <<>> /\ Head(line) \in Whitespace THEN TrimStart(Tail(line)) ELSE line

RECURSIVE TrimEnd(_)
TrimEnd(line) ==
    IF line # <<>> /\ line[Len(line)] \in Whitespace
    THEN TrimEnd(SubSeq(line, 1, Len(line) - 1))
    ELSE line

Trim(line) == TrimEnd(TrimStart(line))

LowerChar(c) ==
    CASE c = "Y" -> "y"
      [] c = "E" -> "e"
      [] c = "S" -> "s"
      [] c = "N" -> "n"
      [] OTHER -> c

ToLowercase(line) == [i \in 1..Len(line) |-> LowerChar(line[i])]

\* the answer that lets the command run: !(input != "y" && input != "yes")
Accepts(line) == ToLowercase(Trim(line)) \in {<<"y">>, <<"y", "e", "s">>}

\* The registered RunShellCommandTool::run: run_with_settings with no cb_sink
\* reads the command, and execute_command starts the process; with
\* is_headless set it asks nothing and reads no line.
RunShellTool(l) ==
    LET f == Top(l)
        name == f.call.name
    IN IF ~GetStringOk(f.args, "command")
       THEN /\ stack' = SetTop(l, [f EXCEPT !.outcome = CommandRequired(name),
                                            !.pc = "result"])
            /\ executed' = executed
       ELSE /\ stack' = SetTop(l, [f EXCEPT !.outcome = ToolOutput(name),
                                            !.pc = "result"])
            /\ executed' = Append(executed,
                             ShellRun(l, Depth(l), f.rounds, "command", None))

\* any other registered tool returns its output
RunOrdinaryTool(l) ==
    LET f == Top(l) IN
    /\ stack' = SetTop(l, [f EXCEPT !.outcome = ToolOutput(f.call.name),
                                    !.pc = "result"])
    /\ executed' = executed

\* tool.run(args, settings).await
RunTool(l) ==
    /\ At(l, "run")
    /\ CASE Top(l).call.name \in SubAgentTools -> RunSubAgentTool(l)
         [] Top(l).call.name = "run_shell_command" -> RunShellTool(l)
         [] OTHER -> RunOrdinaryTool(l)
    /\ UNCHANGED <<messages, request_in_flight, in_subminerve_context, requests,
                   layers, gate, script, rest>>

\* the two messages a sub-agent session starts from
SubPromptMessage(name) == Msg("user", Text("sub_prompt", name), None, NoCall)

\* The sub-agent tool stores true into the flag and starts the nested session
\* (run_headless_with_capture), which the tool awaits.
SubStore(l) ==
    /\ At(l, "sub_store")
    /\ Depth(l) < MaxDepth
    /\ in_subminerve_context' = TRUE
    /\ LET f == Top(l) IN
       stack' = [stack EXCEPT ![l] =
                   Append([@ EXCEPT ![Len(@)] = [f EXCEPT !.pc = "sub_wait"]],
                          NextRequest([Frame("headless",
                                <<SystemMessage, SubPromptMessage(f.call.name)>>)
                                       EXCEPT !.functions = GetToolRegistry(TRUE)]))]
    /\ UNCHANGED <<messages, request_in_flight, requests, layers, gate, executed, script, rest>>

\* The sub-agent tool stores false into the flag and returns its report.
SubClear(l) ==
    /\ At(l, "sub_clear")
    /\ in_subminerve_context' = FALSE
    /\ LET f == Top(l) IN
       stack' = SetTop(l, [f EXCEPT !.outcome = SubCompleted(f.call.name),
                                    !.pc = "result"])
    /\ UNCHANGED <<messages, request_in_flight, requests, layers, gate, executed, script, rest>>

\* -------------------------------------------- the loop's match on the result
\* an error text that leaves the reason out
ToolCallErrorSilent(reason) == Text("Error occurred in tool call", "")

\* format!("Error occurred in tool call: {}", err)
ToolCallError(reason) == Text("Error occurred in tool call", reason.a)

\* a loop that asks the model again whatever the outcome
AfterOutcomeContinues(o) == "request"

\* a loop that ends on Error only
AfterOutcomeEndsOnError(o) == IF o.t = "Error" THEN "finish" ELSE "request"

\* where the loop goes after a dispatch outcome
AfterOutcome(o) == IF o.t = "Success" THEN "request" ELSE "finish"

Settle(f) ==
    [f EXCEPT !.pc = AfterOutcome(f.outcome), !.call = NoCall, !.args = {},
              !.outcome = NoOutcome]

HandleResultChat(l) ==
    LET f == Top(l)
        o == f.outcome
    IN CASE o.t = "Cancelled" ->
              /\ messages' = messages
              /\ stack' = SetTop(l, Settle(f))
         [] o.t = "Success" ->
              /\ messages' = IF o.msg.content # NoContent
                             THEN Push(messages, o.msg) ELSE messages
              /\ stack' = SetTop(l, Continue([Settle(f) EXCEPT
                                                !.history = Append(@, o.msg)]))
         [] OTHER ->
              /\ messages' = Push(messages,
                                    SyntheticAssistant(ToolCallError(o.reason)))
              /\ stack' = SetTop(l, Settle(f))

\* the headless frame f after the match on its dispatch outcome
HeadlessSettled(f) ==
    CASE f.outcome.t = "Cancelled" -> Settle(f)
      [] f.outcome.t = "Success" ->
            [Settle(f) EXCEPT !.history = Append(@, f.outcome.msg)]
      [] OTHER ->
            [Settle(f) EXCEPT
               !.output_buffer = Capture(f, ToolCallError(f.outcome.reason))]

HandleResultHeadless(l) ==
    /\ messages' = messages
    /\ stack' = [stack EXCEPT ![l] = Step(l, HeadlessSettled(Top(l)))]

HandleResult(l) ==
    /\ At(l, "result")
    /\ Top(l).kind = "chat" => lock = None
    /\ IF Top(l).kind = "chat" THEN HandleResultChat(l) ELSE HandleResultHeadless(l)
    /\ UNCHANGED <<request_in_flight, in_subminerve_context, requests, layers,
                   gate, executed, script, rest>>

\* After the while loop of the spawned task: clear request_in_flight.
Finish(l) ==
    /\ Depth(l) = 1
    /\ At(l, "finish")
    /\ Top(l).kind = "chat"
    /\ request_in_flight' = FALSE
    /\ stack' = SetTop(l, [Top(l) EXCEPT !.pc = "done"])
    /\ UNCHANGED <<messages, in_subminerve_context, requests, layers, gate, executed, script, rest>>

Next ==
    \E l \in Loops :
        \/ Chat(l)
        \/ Respond(l)
        \/ Dispatch(l)
        \/ UiShowDialog(l)
        \/ UiYes(l)
        \/ UiNo(l)
        \/ UiDiscard(l)
        \/ ConfirmRecv(l)
        \/ RunTool(l)
        \/ SubStore(l)
        \/ SubClear(l)
        \/ HandleResult(l)
        \/ Finish(l)

Spec == Init /\ [][Next]_vars

\* the task blocked in rx.recv() is woken once the receive can return
FairSpec == Spec /\ \A l \in Loops : WF_vars(ConfirmRecv(l))

\* the variables of a Minerve session
session == <<messages, request_in_flight, in_subminerve_context, stack, requests,
             layers, gate, executed, script>>

\* a Minerve as constructed, with no chat submitted and nothing running
NoSession ==
    /\ messages = <<SystemMessage>>
    /\ request_in_flight = FALSE
    /\ in_subminerve_context = FALSE
    /\ stack = [l \in Loops |-> <<>>]
    /\ requests = 0
    /\ layers = <<>>
    /\ gate = [l \in Loops |-> NoGate]
    /\ executed = <<>>
    /\ script = Script(1)
    /\ lock = None
    /\ returned = NotReturned

\* ------------------------------------------- chat_headless called directly
\* a Minerve whose messages hold the prompt of a headless run
HeadlessInit ==
    /\ messages = <<SystemMessage, UserMessage(1)>>
    /\ request_in_flight = FALSE
    /\ in_subminerve_context = FALSE
    /\ stack = [l \in Loops |-> <<>>]
    /\ requests = 0
    /\ layers = <<>>
    /\ gate = [l \in Loops |-> NoGate]
    /\ executed = <<>>
    /\ script \in HeadlessScripts
    /\ lock = None
    /\ returned = NotReturned
    /\ PartsIdle

\* chat_headless(capture_output): clone the messages under the lock, then run
\* to the await of the first response
ChatHeadless ==
    /\ ~Started(1)
    /\ lock = None
    /\ \E capture_output \in BOOLEAN :
          stack' = [stack EXCEPT ![1] =
                      <<NextRequest([Frame("headless", messages) EXCEPT
                                       !.capture_output = capture_output])>>]
    /\ UNCHANGED <<messages, request_in_flight, in_subminerve_context, requests,
                   layers, gate, executed, script, rest>>

\* the separator of join
Newline == Text("\n", "")

\* a join that keeps the last text only
JoinKeepsLast(buffer) == IF buffer = <<>> THEN <<>> ELSE <<buffer[Len(buffer)]>>

\* output_buffer.join("\n"): the texts in their order with a newline between
\* each two
Join(buffer) ==
    [i \in 1..(2 * Len(buffer) - 1) |->
        IF i % 2 = 1 THEN buffer[(i + 1) \div 2] ELSE Newline]

\* "if capture_output { output_buffer.join("\n") } else { String::new() }"
ChatHeadlessReturn(f) == IF f.capture_output THEN Join(f.output_buffer) ELSE <<>>

\* chat_headless left its while loop and returns
ReturnHeadless ==
    /\ Depth(1) = 1
    /\ At(1, "finish")
    /\ Top(1).kind = "headless"
    /\ returned' = [done |-> TRUE, capture_output |-> Top(1).capture_output,
                    output |-> ChatHeadlessReturn(Top(1))]
    /\ stack' = SetTop(1, [Top(1) EXCEPT !.pc = "done"])
    /\ UNCHANGED <<messages, request_in_flight, in_subminerve_context, requests,
                   layers, gate, executed, script, lock, parts>>

HeadlessNext ==
    \/ ChatHeadless
    \/ Respond(1)
    \/ Dispatch(1)
    \/ RunTool(1)
    \/ SubStore(1)
    \/ SubClear(1)
    \/ HandleResult(1)
    \/ ReturnHeadless

HeadlessSpec == HeadlessInit /\ [][HeadlessNext]_vars

\* ------------------------------------------------- run_headless (main.rs)
\* the calls of the responder of a run_headless session
RunHeadlessCalls == [name : {"list_files", "does_not_exist"}, arguments : {"object"}]

RunHeadlessResponses ==
    Failures \cup Messages({NoContent, Text("text", "1")}, RunHeadlessCalls)

\* vec![system_message, user_message] behind its own Mutex
RunHeadlessInit ==
    /\ messages = <<SystemMessage, UserMessage(1)>>
    /\ request_in_flight = FALSE
    /\ in_subminerve_context = FALSE
    /\ stack = [l \in Loops |-> <<>>]
    /\ requests = 0
    /\ layers = <<>>
    /\ gate = [l \in Loops |-> NoGate]
    /\ executed = <<>>
    /\ script = Script(1)
    /\ lock = None
    /\ returned = NotReturned
    /\ PartsIdle

\* rt.block_on(async { let messages = messages.lock().unwrap(); ... }): the
\* guard is bound for the whole block; the history is a clone of the messages,
\* and the loop runs to the await of its first response.
BlockOn ==
    /\ ~Started(1)
    /\ lock = None
    /\ lock' = "run_headless"
    /\ stack' = [stack EXCEPT ![1] = <<NextRequest(Frame("run_headless", messages))>>]
    /\ UNCHANGED <<messages, request_in_flight, in_subminerve_context, requests,
                   layers, gate, executed, script, returned, parts>>

\* the frame of run_headless after the match on response r: a failure is
\* printed and ends the loop, a message is pushed to the history
RunHeadlessResponded(f, r) ==
    CASE r.t \in {"transport_error", "json_error"} -> [f EXCEPT !.pc = "finish"]
      [] r.t = "empty_choices" -> [f EXCEPT !.pc = "panicked"]
      [] OTHER ->
            [f EXCEPT !.history = Append(@, HistoryAssistant(r)),
                      !.call = r.function_call,
                      !.pc = IF r.function_call # NoCall THEN "call" ELSE "finish"]

\* The response of the request run_headless awaits; the panic of
\* choices.first().unwrap() unwinds the block and drops the guard.
RespondRunHeadless ==
    /\ At(1, "awaiting")
    /\ requests < script.requests
    /\ requests' = requests + 1
    /\ \E r \in RunHeadlessResponses :
          /\ stack' = SetTop(1, RunHeadlessResponded(Top(1), r))
          /\ lock' = IF r.t = "empty_choices" THEN None ELSE lock
    /\ UNCHANGED <<messages, request_in_flight, in_subminerve_context, layers,
                   gate, executed, script, returned, parts>>

\* the Function message handle_function_call (main.rs) returns: the tool's
\* output, or the text that the function was not found
FunctionCallMessage(name) ==
    IF name \in GetToolRegistry(FALSE)
    THEN FunctionMessage(name, Text("tool output", name))
    ELSE FunctionMessage(name, Text("Error: Function not found", name))

\* handle_function_call(function_call).await, the push of its message, and
\* the top of the next iteration
HandleFunctionCall ==
    /\ At(1, "call")
    /\ LET f == Top(1) IN
       stack' = SetTop(1, NextRequest([f EXCEPT
                             !.history = Append(@, FunctionCallMessage(f.call.name)),
                             !.call = NoCall,
                             !.pc = "request"]))
    /\ UNCHANGED <<messages, request_in_flight, in_subminerve_context, requests,
                   layers, gate, executed, script, rest>>

\* the end of the block: the guard goes out of scope
EndBlockOn ==
    /\ At(1, "finish")
    /\ lock' = None
    /\ stack' = SetTop(1, [Top(1) EXCEPT !.pc = "done"])
    /\ UNCHANGED <<messages, request_in_flight, in_subminerve_context, requests,
                   layers, gate, executed, script, returned, parts>>

RunHeadlessNext ==
    \/ BlockOn
    \/ RespondRunHeadless
    \/ HandleFunctionCall
    \/ EndBlockOn

RunHeadlessSpec == RunHeadlessInit /\ [][RunHeadlessNext]_vars

\* ------------------------------------------ the History Compactor on its own
\* the messages a history is made of: one of each role, the assistant with
\* and without a tool invocation, the function outputs fresh and already
\* redacted
HistoryMessages ==
    {SystemMessage,
     UserMessage(1),
     SyntheticAssistant(Text("text", "1")),
     HistoryAssistant([content |-> NoContent,
                       function_call |-> [name |-> "list_files", arguments |-> "object"]]),
     FunctionMessage("list_files", Text("tool output", "list_files")),
     FunctionMessage("list_files", Cleaned)}

Histories == UNION {[1..n -> HistoryMessages] : n \in 0..MaxLen}

\* some history and some cutoff, and no session running
CompactInit ==
    /\ NoSession
    /\ \E h \in Histories : \E n \in 0..MaxCutoff :
          compaction = [input |-> h, cutoff |-> n, outputs |-> <<>>]
    /\ definition = NoDefinition
    /\ token_counter = NewTokenCounter
    /\ incrementing = NoIncrements
    /\ UtilitiesIdle

\* the sequence the next pass of the compactor is given
UnderCompaction ==
    IF compaction.outputs = <<>>
    THEN compaction.input
    ELSE compaction.outputs[Len(compaction.outputs)]

\* One pass of the compactor, as at the top of each loop iteration.
ApplyCompactor ==
    /\ Len(compaction.outputs) < MaxPasses
    /\ compaction' = [compaction EXCEPT
                        !.outputs = Append(@, Compact(UnderCompaction, compaction.cutoff))]
    /\ UNCHANGED <<session, lock, returned, definition, token_counter, incrementing, utilities>>

CompactNext == ApplyCompactor

CompactSpec == CompactInit /\ [][CompactNext]_vars

\* --------------------------------------------- Tool::function_definition
\* names of parameters, as the tools declare them
ParamNameList == <<"filepath", "old_content", "new_content", "content", "command">>
ParamNames == {ParamNameList[i] : i \in 1..MaxParams}

\* the types the tools declare their parameters with
DeclaredTypes == {"string", "integer", "optional string"}

\* Tool::parameters(): a map from parameter name to declared type
Declarations == UNION {[names -> DeclaredTypes] : names \in SUBSET ParamNames}

\* Tool::function_definition: a property for each parameter declared
\* "string" or "integer", and every parameter pushed to required
FunctionDefinition(params) ==
    [type |-> "object",
     properties |-> [n \in {m \in DOMAIN params : params[m] \in {"string", "integer"}} |->
                        [type |-> params[n]]],
     required |-> DOMAIN params]

\* some declaration, and no session running
DefinitionInit ==
    /\ NoSession
    /\ compaction = NoCompaction
    /\ \E params \in Declarations : definition = [parameters |-> params, outputs |-> <<>>]
    /\ token_counter = NewTokenCounter
    /\ incrementing = NoIncrements
    /\ UtilitiesIdle

\* the function definition of the tool is generated for the registry
GenerateDefinition ==
    /\ definition.outputs = <<>>
    /\ definition' = [definition EXCEPT
                        !.outputs = <<FunctionDefinition(definition.parameters)>>]
    /\ UNCHANGED <<session, lock, returned, compaction, token_counter, incrementing, utilities>>

DefinitionNext == GenerateDefinition

DefinitionSpec == DefinitionInit /\ [][DefinitionNext]_vars

\* ---------------------------------------------------------- TokenCounter
Callers == 1..MaxCallers
CounterFields == {"prompt_tokens", "completion_tokens"}

\* a caller outside of the increment functions
NotIncrementing == [field |-> None, count |-> 0, at_call |-> 0]

\* a fresh counter and callers that have called nothing yet
CounterInit ==
    /\ NoSession
    /\ compaction = NoCompaction
    /\ definition = NoDefinition
    /\ token_counter = NewTokenCounter
    /\ incrementing = [calls |-> [c \in Callers |-> NotIncrementing],
                       completed |-> NewTokenCounter,
                       made |-> 0]
    /\ UtilitiesIdle

\* Caller c enters increment_prompt(count) or increment_completion(count).
CallIncrement(c) ==
    /\ incrementing.calls[c] = NotIncrementing
    /\ incrementing.made < MaxIncrements
    /\ \E field \in CounterFields : \E count \in 0..MaxCount :
          incrementing' = [incrementing EXCEPT
                             !.calls[c] = [field |-> field, count |-> count,
                                           at_call |-> token_counter[field]],
                             !.made = @ + 1]
    /\ UNCHANGED <<session, lock, returned, compaction, definition, token_counter, utilities>>

\* an addition to the value the counter had when the call was entered
FetchAddOnStale(current, count, at_call) == at_call + count

\* AtomicUsize::fetch_add(count, SeqCst): one read-modify-write of the value
\* the counter has now
FetchAdd(current, count, at_call) == current + count

\* The fetch_add of caller c's call, and the return of the call.
Increment(c) ==
    LET call == incrementing.calls[c] IN
    /\ call # NotIncrementing
    /\ token_counter' = [token_counter EXCEPT
                           ![call.field] = FetchAdd(@, call.count, call.at_call)]
    /\ incrementing' = [incrementing EXCEPT
                          !.calls[c] = NotIncrementing,
                          !.completed[call.field] = @ + call.count]
    /\ UNCHANGED <<session, lock, returned, compaction, definition, utilities>>

CounterNext == \E c \in Callers : CallIncrement(c) \/ Increment(c)

CounterSpec == CounterInit /\ [][CounterNext]_vars

\* ------------------------------- the two loops on the same run, side by side
\* what the responder answers in one iteration: a plain message, or the
\* invocation of a tool
TwinResponses == Messages({Text("text", "1")}, LongCalls)

\* the history after the response r of an iteration: the Assistant message
\* and, after a successful dispatch, the Function message
Replied(h, r) ==
    IF r.function_call # NoCall
    THEN h \o <<HistoryAssistant(r),
                FunctionMessage(r.function_call.name,
                                Text("tool output", r.function_call.name))>>
    ELSE Append(h, HistoryAssistant(r))

\* both loops start from the same history and use the same cutoff
TwinInit ==
    /\ NoSession
    /\ compaction = NoCompaction
    /\ definition = NoDefinition
    /\ token_counter = NewTokenCounter
    /\ incrementing = NoIncrements
    /\ \E h \in Histories : \E n \in 0..MaxCutoff :
          twin = [cutoff |-> n, headless |-> h, interactive |-> h, sent |-> <<>>,
                  over |-> FALSE]
    /\ history_tracker = NoTracker
    /\ replacing = NoReplacing

\* One iteration of both loops with the response r: chat_headless cleans its
\* history in place and sends it, Minerve::chat cleans a clone of its history
\* and sends the clone; both push the same messages.
TwinIteration(r) ==
    LET cleaned == Compact(twin.headless, twin.cutoff)
        cleaned_history == Compact(twin.interactive, twin.cutoff)
    IN /\ ~twin.over
       /\ Len(twin.sent) < MaxIterations
       /\ twin' = [twin EXCEPT
                     !.sent = Append(@, [headless |-> cleaned,
                                         interactive |-> cleaned_history]),
                     !.headless = Replied(cleaned, r),
                     !.interactive = Replied(twin.interactive, r),
                     !.over = (r.function_call = NoCall)]
       /\ UNCHANGED <<session, lock, returned, compaction, definition,
                      token_counter, incrementing, history_tracker, replacing>>

\* the iteration whose response carries a tool invocation
TwinToolRound == \E r \in TwinResponses : r.function_call # NoCall /\ TwinIteration(r)

\* the iteration whose response is a plain message: both loops end
TwinPlainRound == \E r \in TwinResponses : r.function_call = NoCall /\ TwinIteration(r)

TwinNext == TwinToolRound \/ TwinPlainRound

TwinSpec == TwinInit /\ [][TwinNext]_vars

\* ----------------------------------------------- ReplaceContentTool::run
Chars == {"x", "y"}
Contents == UNION {[1..n -> Chars] : n \in 0..MaxContent}

\* an argument of the call: not given, or given with a value
Arguments == {NoneOf(<<>>)} \cup {Some(c) : c \in Contents}

\* the filepath argument: not given, empty, or the path of the file
FilepathArguments == {NoneOf(<<>>), Some(<<>>), Some(<<"f">>)}

\* the file at the path before the call
Files == {Missing, Unreadable} \cup {FileWith(c) : c \in Contents}

\* some call of replace_content on some file, and no session running
ReplaceInit ==
    /\ NoSession
    /\ compaction = NoCompaction
    /\ definition = NoDefinition
    /\ token_counter = NewTokenCounter
    /\ incrementing = NoIncrements
    /\ twin = NoTwin
    /\ history_tracker = NoTracker
    /\ \E filepath \in FilepathArguments : \E old_content, new_content \in Arguments :
       \E file \in Files : \E writable \in BOOLEAN :
          replacing = [args |-> [filepath |-> filepath, old_content |-> old_content,
                                 new_content |-> new_content],
                       before |-> file, file |-> file, writable |-> writable,
                       replies |-> <<>>]

\* ToolParams::get_string: Ok for an argument that is given and not empty
GetStringIsOk(arg) == arg.some /\ arg.v # <<>>

\* ToolParams::get_string_optional(param, ""): the value given, else the default
GetStringOptional(arg) == IF arg.some THEN arg.v ELSE <<>>

\* content.contains(&old_content)
Contains(content, old) ==
    \E i \in 1..(Len(content) - Len(old) + 1) :
        SubSeq(content, i, i + Len(old) - 1) = old

\* content.replace(&old_content, &new_content): every match, left to right
RECURSIVE Replace(_, _, _)
Replace(content, old, new) ==
    IF Len(content) < Len(old)
    THEN content
    ELSE IF SubSeq(content, 1, Len(old)) = old
    THEN new \o Replace(SubSeq(content, Len(old) + 1, Len(content)), old, new)
    ELSE <<Head(content)>> \o Replace(Tail(content), old, new)

\* the state of the call after run returned reply, with the file as it is left
Returns(reply, file) ==
    [replacing EXCEPT !.replies = <<reply>>, !.file = file]

\* ReplaceContentTool::run: read the arguments, read the file, replace every
\* match of old_content and write the file back; a missing file is created
\* when old_content is empty.
ReplaceContentRun ==
    LET args == replacing.args
        file == replacing.file
        old_content == args.old_content.v
        new_content == GetStringOptional(args.new_content)
    IN /\ replacing.replies = <<>>
       /\ replacing' =
             IF ~GetStringIsOk(args.filepath)
             THEN Returns(Text("[Error] Parameter is required", "filepath"), file)
             ELSE IF ~GetStringIsOk(args.old_content)
             THEN Returns(Text("[Error] Parameter is required", "old_content"), file)
             ELSE IF file.kind = "file"
             THEN IF Contains(file.content, old_content)
                  THEN IF replacing.writable
                       THEN Returns(Text("Successfully replaced content", ""),
                                      FileWith(Replace(file.content, old_content,
                                                       new_content)))
                       ELSE Returns(Text("[Error] Failed to write file", ""), file)
                  ELSE Returns(Text("[Error] Old content not found in file", ""), file)
             ELSE IF file.kind = "missing"
             THEN IF old_content = <<>>
                  THEN IF replacing.writable
                       THEN Returns(Text("Successfully created new file", ""),
                                      FileWith(new_content))
                       ELSE Returns(Text("[Error] Failed to create file", ""), file)
                  ELSE Returns(Text("[Error] File not found", ""), file)
             ELSE Returns(Text("[Error] Failed to read file", ""), file)
       /\ UNCHANGED <<session, lock, returned, compaction, definition,
                      token_counter, incrementing, twin, history_tracker>>

ReplaceNext == ReplaceContentRun

ReplaceSpec == ReplaceInit /\ [][ReplaceNext]_vars

\* --------------------------------------------------------- HistoryTracker
\* the prompts a user submits
Prompts == {"a", "b"}

\* the lists add_prompt leaves in the history file: no prompt twice in a row
StoredLists ==
    {h \in UNION {[1..n -> Prompts] : n \in 0..MaxStored} :
        \A i \in 1..(Len(h) - 1) : h[i] # h[i + 1]}

\* HistoryTracker::new(): index None, the prompts loaded from the file
TrackerInit ==
    /\ NoSession
    /\ compaction = NoCompaction
    /\ definition = NoDefinition
    /\ token_counter = NewTokenCounter
    /\ incrementing = NoIncrements
    /\ twin = NoTwin
    /\ \E h \in StoredLists :
          history_tracker = [previous_prompts |-> h, index |-> NoneOf(0), calls |-> <<>>]
    /\ replacing = NoReplacing

\* the tracker after a call: the prompts and the index as the call leaves
\* them, and the call with what it returned added to the calls made
Called(op, prompt, prompts, index, result) ==
    [previous_prompts |-> prompts,
     index |-> index,
     calls |-> Append(history_tracker.calls,
                      [op |-> op, prompt |-> prompt, returned |-> result,
                       before |-> history_tracker.index, index |-> index,
                       len |-> Len(prompts)])]

\* what a call on the HistoryTracker leaves alone
beside_tracker == <<session, lock, returned, compaction, definition,
                    token_counter, incrementing, twin, replacing>>

\* add_prompt(prompt): a prompt equal to the last one is skipped with an early
\* return; else the prompt is pushed and the index reset
AddPrompt(prompt) ==
    LET prompts == history_tracker.previous_prompts IN
    /\ Len(history_tracker.calls) < MaxCalls
    /\ history_tracker' =
          IF prompts # <<>> /\ prompts[Len(prompts)] = prompt
          THEN Called("add_prompt", prompt, prompts, history_tracker.index, NoneOf(""))
          ELSE Called("add_prompt", prompt, Append(prompts, prompt), NoneOf(0),
                      NoneOf(""))
    /\ UNCHANGED beside_tracker

\* prompts.get(i).cloned(), i counted from 0
Get(prompts, i) == IF i < Len(prompts) THEN Some(prompts[i + 1]) ELSE NoneOf("")

\* a cursor that goes round to the newest prompt from the oldest
PreviousIndexWraps(index, len) ==
    CASE ~index.some -> Some(len - 1)
      [] index.v = 0 -> Some(len - 1)
      [] OTHER -> Some(index.v - 1)

\* the match on self.index in get_previous_prompt
PreviousIndex(index, len) ==
    CASE ~index.some -> Some(IF len >= 1 THEN len - 1 ELSE 0)
      [] index.v = 0 -> Some(0)
      [] OTHER -> Some(index.v - 1)

\* get_previous_prompt(): None on an empty list, else the prompt before
GetPreviousPrompt ==
    LET prompts == history_tracker.previous_prompts
        index == PreviousIndex(history_tracker.index, Len(prompts))
    IN /\ Len(history_tracker.calls) < MaxCalls
       /\ history_tracker' =
             IF prompts = <<>>
             THEN Called("get_previous_prompt", "", prompts, history_tracker.index,
                         NoneOf(""))
             ELSE Called("get_previous_prompt", "", prompts, index,
                         Get(prompts, index.v))
       /\ UNCHANGED beside_tracker

\* a test that lets the cursor go one past the newest prompt
AtNewestOneLate(i, len) == i >= len

\* "Some(i) if i + 1 >= prompts.len()"
AtNewest(i, len) == i + 1 >= len

\* get_next_prompt(): None on an empty list, the empty string at the fresh
\* input and when the cursor leaves the history, else the prompt after
GetNextPrompt ==
    LET prompts == history_tracker.previous_prompts
        index == history_tracker.index
    IN /\ Len(history_tracker.calls) < MaxCalls
       /\ history_tracker' =
             IF prompts = <<>>
             THEN Called("get_next_prompt", "", prompts, index, NoneOf(""))
             ELSE IF ~index.some
             THEN Called("get_next_prompt", "", prompts, index, Some(""))
             ELSE IF AtNewest(index.v, Len(prompts))
             THEN Called("get_next_prompt", "", prompts, NoneOf(0), Some(""))
             ELSE Called("get_next_prompt", "", prompts, Some(index.v + 1),
                         Get(prompts, index.v + 1))
       /\ UNCHANGED beside_tracker

TrackerNext ==
    \/ \E prompt \in Prompts : AddPrompt(prompt)
    \/ GetPreviousPrompt
    \/ GetNextPrompt

TrackerSpec == TrackerInit /\ [][TrackerNext]_vars

\* =========================================================== the agent loop
\* the loop of task l is in Terminal: it left the while loop
Terminal(l) == Started(l) /\ Depth(l) = 1 /\ Top(l).pc \in {"finish", "done"}

IsAssistantCall(m) == m.role = "assistant" /\ m.function_call # NoCall
IsPlainAssistant(m) ==
    m.role = "assistant" /\ m.function_call = NoCall /\ m.content # NoContent

\* h is System, User, k times (Assistant with invocation, Function with its
\* result), plain Assistant
ToolRoundsThenPlain(h, k) ==
    /\ Len(h) = 2 * k + 3
    /\ h[1] = SystemMessage
    /\ h[2].role = "user"
    /\ \A i \in 1..k : /\ IsAssistantCall(h[2 * i + 1])
                       /\ h[2 * i + 2].role = "function"
                       /\ h[2 * i + 2].name = h[2 * i + 1].function_call.name
    /\ IsPlainAssistant(h[2 * k + 3])

\* C1 (as the spec states it): in a session of one chat submission, when the
\* responder gave k >= 1 tool invocations whose dispatch succeeded and then a
\* plain message, the loop made k+1 round trips and the Message Store holds
\* System, User, k times (Assistant carrying the invocation, Function), and
\* the final Assistant.
C1_StoreHoldsInvocations ==
    \A l \in Loops : \A k \in 1..(MaxRequests - 1) :
        (/\ script.chats = 1
         /\ At(l, "done")
         /\ ToolRoundsThenPlain(Top(l).history, k))
        => /\ Top(l).rounds = k + 1
           /\ ToolRoundsThenPlain(messages, k)
           /\ \A i \in 1..k : messages[2 * i + 1].function_call
                                 = Top(l).history[2 * i + 1].function_call

\* the place of task l's User message in a message sequence
UserIndex(h, l) == CHOOSE i \in 1..Len(h) : h[i] = UserMessage(l)

\* the first response to task l's chat was a plain message
PlainFirst(l) ==
    /\ Started(l)
    /\ LET h == stack[l][1].history
           u == UserIndex(h, l)
       IN Len(h) > u /\ IsPlainAssistant(h[u + 1])

\* C2: when the first response is a plain assistant message with no tool
\* invocation, the loop made exactly one round trip, is in Terminal, and
\* exactly one Assistant message was appended to the Message Store after the
\* User message.
C2_PlainFirstResponse ==
    \A l \in Loops :
        PlainFirst(l) =>
            LET h == Top(l).history
                u == UserIndex(h, l)
            IN /\ Terminal(l)
               /\ Top(l).rounds = 1
               /\ Len(h) = u + 1
               /\ script.chats = 1 =>
                     messages = <<SystemMessage, UserMessage(l), StoreAssistant(h[u + 1])>>

\* C2 witness: a loop that finished after a plain first response
C2_Witness == \E l \in Loops : At(l, "done") /\ PlainFirst(l)

\* ====================================================== the confirmation gate
\* the top frame of task l after the step
TopNext(l) == stack'[l][Len(stack'[l])]

\* task l's top frame takes a step from pc
StepsFrom(l, pc) == At(l, pc) /\ stack'[l] # stack[l]

\* C3: in an interactive session a shell command is executed only after the
\* value true was received from the confirmation channel; when No was pressed,
\* whether before or after the task blocks in recv, dispatch returns Cancelled
\* and nothing is executed.
C3_ConfirmationGate ==
    /\ [](\A i \in 1..Len(executed) :
            executed[i].depth = 1 => executed[i].received = "true")
    /\ [][\A l \in Loops :
            (StepsFrom(l, "confirm") /\ gate[l].value = "false")
            => /\ TopNext(l).outcome = Cancelled
               /\ TopNext(l).pc = "result"
               /\ executed' = executed]_vars

\* C3 witness: one command ran after Yes, and a later one was cancelled by No
C3_Witness ==
    \E l \in Loops :
        /\ At(l, "result")
        /\ Top(l).outcome = Cancelled
        /\ \E i \in 1..Len(executed) :
              executed[i].task = l /\ executed[i].received = "true"

\* C4 (as the spec states it): once the dialog is discarded with no button
\* pressed, the blocked recv returns on the closed channel, so that dispatch
\* can return Cancelled.
C4_DiscardCancels ==
    \A l \in Loops : gate[l].state = "discarded" => RecvReturns(gate[l])

\* ========================================================= the recursion guard
\* task l's top frame is about to run a sub-agent tool while the flag is set
RunsGuarded(l) ==
    /\ StepsFrom(l, "run")
    /\ Top(l).call.name \in SubAgentTools
    /\ in_subminerve_context

ExecutingSubAgent(l) ==
    /\ Started(l)
    /\ Top(l).pc # "panicked"
    /\ \E i \in 1..Depth(l) : stack[l][i].pc \in {"sub_wait", "sub_clear"}

\* C6 (as the spec states it): the flag is true only while a sub-agent tool is
\* executing; it is false again once the call has ended, also when the nested
\* session panicked.
C6_GuardOnlyWhileExecuting ==
    in_subminerve_context => \E l \in Loops : ExecutingSubAgent(l)

\* the tasks that have a sub-agent session running
ActiveSubAgents == {l \in Loops : Started(l) /\ Depth(l) >= 2}

\* C7 (as the spec states it): at most one sub-agent session is active at any
\* time, whatever the interleaving of the loops started by chat submissions.
C7_OneSubAgentAtATime == Cardinality(ActiveSubAgents) <= 1

\* C8 (as the spec states it): run_shell_command dispatched inside a sub-agent
\* session is never executed and dispatch returns Error with a reason that
\* contains "Execution not allowed".
C8_ExecutionNotAllowed ==
    /\ \A i \in 1..Len(executed) : executed[i].depth = 1
    /\ \A l \in Loops :
          (/\ Started(l)
           /\ Depth(l) >= 2
           /\ At(l, "result")
           /\ Top(l).call.name = "run_shell_command")
          => /\ Top(l).outcome.t = "Error"
             /\ Top(l).outcome.reason.k = "Execution not allowed"

\* C9 (as the spec states it): a registry built with the flag set holds no
\* sub-agent tool and one built with the flag clear holds both, so that no
\* sub-agent session ever starts a sub-agent session of its own.
C9_NoNestedSubAgent ==
    /\ SubAgentTools \cap GetToolRegistry(TRUE) = {}
    /\ SubAgentTools \subseteq GetToolRegistry(FALSE)
    /\ \A l \in Loops : Depth(l) <= 2

ErrorTexts ==
    {NestedRejected("").msg.content.k, PromptRequired("").msg.content.k,
     CommandRequired("").msg.content.k}

\* the dispatch in task l's top frame reached a tool that lacks its required
\* argument
LacksRequired(l) ==
    /\ Started(l)
    /\ Top(l).call # NoCall
    /\ RequiredParam(Top(l).call.name) # None
    /\ RequiredParam(Top(l).call.name) \notin
          DecodeArgs(ParamsOf(Top(l).call.name), Top(l).call.arguments)

\* C12 (as the spec states it): on every dispatch path, the confirmation
\* dialog included, a missing or empty required argument comes back as an
\* "[Error] ..." text inside a Success Function message, and no shell process
\* is started for it.
C12_MissingArgumentReported ==
    /\ \A i \in 1..Len(executed) : executed[i].command # ""
    /\ \A l \in Loops :
          (LacksRequired(l) /\ At(l, "result") /\ Top(l).outcome.t # "Error")
          => /\ Top(l).outcome.t = "Success"
             /\ Top(l).outcome.msg.content.k \in ErrorTexts
    /\ \A l \in Loops : LacksRequired(l) => Top(l).pc # "confirm"

\* a dispatch of task l ended in a panic: in handle_tool_call itself, or in
\* the tool it awaits
DispatchPanicked(l) ==
    /\ Started(l)
    /\ Top(l).pc = "panicked"
    /\ Top(l).call # NoCall \/ Depth(l) >= 2

\* C13 (as the spec states it): whatever the UI does, its callback sink closed
\* included, dispatch ends with one of Success, Cancelled and Error: it never
\* panics and is never left blocked.
C13_DispatchTotal ==
    \A l \in Loops :
        /\ ~DispatchPanicked(l)
        /\ (Started(l) /\ At(l, "confirm"))
             => gate[l].state \in {"queued", "shown", "answered"}

\* ============================================== the loop's match on outcomes
\* C14: dispatch returns Cancelled without touching the Message Store, and the
\* loop that gets Cancelled leaves its while loop: it appends nothing to the
\* store or to its history, sends no further request, and every message
\* appended before stays in place.
C14_CancelledEndsLoop ==
    /\ [][\A l \in Loops :
            StepsFrom(l, "confirm")
            => messages' = messages /\ TopNext(l).history = Top(l).history]_vars
    /\ [][\A l \in Loops :
            (StepsFrom(l, "result") /\ Top(l).outcome = Cancelled)
            => /\ messages' = messages
               /\ requests' = requests
               /\ Len(stack'[l]) = Len(stack[l])
               /\ TopNext(l).pc = "finish"
               /\ TopNext(l).rounds = Top(l).rounds
               /\ TopNext(l).history = Top(l).history]_vars
    /\ [][\A l \in Loops :
            StepsFrom(l, "finish")
            => messages' = messages /\ requests' = requests]_vars

\* C14 witness: a loop that ended on the cancellation of its shell command,
\* the invocation being the last message of its history
C14_Witness ==
    \E l \in Loops :
        /\ At(l, "done")
        /\ Top(l).history[Len(Top(l).history)].function_call.name = "run_shell_command"
        /\ messages[Len(messages)].content.k # "Error occurred in tool call"

\* task l's top frame, of the given kind, leaves "result" with an Error outcome
SettlesError(l, kind) ==
    /\ StepsFrom(l, "result")
    /\ Top(l).kind = kind
    /\ Top(l).outcome.t = "Error"

\* the synthetic Assistant message for the Error outcome o
ErrorAssistant(o) ==
    Msg("assistant", Text("Error occurred in tool call", o.reason.a), None, NoCall)

\* C15 (as the spec states it): on Error, in the interactive and in the
\* headless loop, exactly one synthetic Assistant message describing the
\* failure is appended to the conversation's message sequence (the store, or
\* the history the headless loop works on).
C15_ErrorAppendsAssistant ==
    [][\A l \in Loops : \A kind \in {"chat", "headless"} :
         SettlesError(l, kind)
         => \/ messages' = Append(messages, ErrorAssistant(Top(l).outcome))
            \/ HeadlessSettled(Top(l)).history
                  = Append(Top(l).history, ErrorAssistant(Top(l).outcome))]_vars

\* C15 (amended): on Error the interactive loop appends exactly one synthetic
\* Assistant message with the reason to the Message Store and leaves its while
\* loop; the headless loop appends no message: it adds the failure text to its
\* captured output, leaves store and history alone, and returns.
C15_ErrorSurfacedOnce ==
    /\ [][\A l \in Loops :
            SettlesError(l, "chat")
            => /\ messages' = Append(messages, ErrorAssistant(Top(l).outcome))
               /\ TopNext(l).pc = "finish"
               /\ TopNext(l).history = Top(l).history
               /\ requests' = requests]_vars
    /\ [][\A l \in Loops :
            SettlesError(l, "headless")
            => LET f == Top(l)
                   g == HeadlessSettled(f)
               IN /\ messages' = messages
                  /\ requests' = requests
                  /\ Len(stack'[l]) = Len(stack[l]) - 1
                  /\ g.pc = "finish"
                  /\ g.history = f.history
                  /\ g.output_buffer
                       = Append(f.output_buffer,
                                Text("Error occurred in tool call", f.outcome.reason.a))]_vars

\* C15 witness: an interactive loop left its while loop on an Error outcome,
\* the synthetic message being the last of the store
C15_Witness ==
    \E l \in Loops :
        /\ At(l, "finish")
        /\ messages[Len(messages)].role = "assistant"
        /\ messages[Len(messages)].content.k = "Error occurred in tool call"

\* ======================================================== request failures
\* the responses that stand for a transport failure and an unparseable body
RequestFailures == {r \in Failures : r.t \in {"transport_error", "json_error"}}

\* the text a request failure is surfaced with
FailureText(r) ==
    IF r.t = "transport_error" THEN Text("Request Error", "") ELSE Text("JSON Error", "")

IsFailureMessage(m) ==
    m.role = "assistant" /\ m.content \in {FailureText(r) : r \in RequestFailures}

\* the interactive loop surfaced a request failure once, as the last message of
\* the store, and is in Terminal
FailureSurfacedInStore ==
    \A i \in 1..Len(messages) :
        IsFailureMessage(messages[i])
        => /\ i = Len(messages)
           /\ \E l \in Loops : /\ Terminal(l)
                                /\ ~IsFailureMessage(Top(l).history[Len(Top(l).history)])

\* the headless frames that await a response
AwaitingHeadless ==
    {stack[l][Depth(l)] : l \in {k \in Loops : Started(k) /\ At(k, "awaiting")
                                                /\ Top(k).kind = "headless"}}

\* C16 (as the spec states it): a request failure is surfaced once as a
\* synthetic Assistant message, in the store by the interactive loop and in
\* its message sequence by the headless loop, and the loop is then in Terminal.
C16_FailureAppendsAssistant ==
    /\ FailureSurfacedInStore
    /\ \A f \in AwaitingHeadless : \A r \in RequestFailures :
          LET g == HeadlessResponded(f, r)
          IN /\ g.pc = "finish"
             /\ g.history = Append(f.history, SyntheticAssistant(FailureText(r)))

\* C16 (amended): the interactive loop surfaces a request failure once as a
\* synthetic Assistant message at the end of the store and is then in
\* Terminal; the headless loop surfaces it once as a text of its captured
\* output, appends no message, and leaves its loop.  Neither sends the request
\* again.
C16_FailureSurfacedOnce ==
    /\ FailureSurfacedInStore
    /\ \A f \in AwaitingHeadless : \A r \in RequestFailures :
          LET g == HeadlessResponded(f, r)
          IN /\ g.pc = "finish"
             /\ g.rounds = f.rounds
             /\ g.history = f.history
             /\ g.output_buffer = Append(f.output_buffer, FailureText(r))

\* C16 witness: an interactive loop ended on a request failure
C16_Witness ==
    \E l \in Loops :
        /\ At(l, "done")
        /\ IsFailureMessage(messages[Len(messages)])

\* ======================================================== the Message Store
IsPrefix(s, t) == Len(s) <= Len(t) /\ SubSeq(t, 1, Len(s)) = s

\* C17: the Message Store is append-only: every step leaves the store it
\* found as a prefix of the store it leaves, so the store of every earlier
\* state is a prefix of the store of every later state.
C17_StoreAppendOnly == [][IsPrefix(messages, messages')]_vars

\* C17 witness: the store took a User message, a Function message and a
\* later Assistant message
C17_Witness ==
    \E i, j \in 1..Len(messages) :
        /\ i < j
        /\ messages[i].role = "function"
        /\ messages[j].role = "assistant"

\* the assistant messages the responder gave task l carry l in their text
FromLoop(m, l) == m.role = "assistant" /\ m.content.a = ToString(l)

\* C18 (as the spec states it), for the sessions with a second chat submission
\* made while an earlier loop may still run: every Function message of the
\* store directly follows an Assistant message, and no message of an earlier
\* loop comes after the User message of a later one.
C18_CausalOrder ==
    script.chats >= 2 =>
        /\ \A i \in 1..Len(messages) :
              messages[i].role = "function"
              => i > 1 /\ messages[i - 1].role = "assistant"
        /\ \A i, j \in 1..Len(messages) : \A k, l \in Loops :
              (i < j /\ k < l /\ messages[i] = UserMessage(l))
              => ~FromLoop(messages[j], k)

\* ===================================================== the History Compactor
\* what the spec says one pass over h with cutoff n leaves at place i
Compacted(h, n, i) ==
    IF Len(h) > n /\ i <= Len(h) - n /\ h[i].role = "function"
    THEN [h[i] EXCEPT !.content = Text("[cleaned from history]", "")]
    ELSE h[i]

\* C19: with cutoff N and length L > N, exactly the Function messages at the
\* first L - N places get the marker "[cleaned from history]" for content;
\* the Function messages among the last N, every message of another role and
\* every message of a sequence with L <= N are left as they were.
C19_CompactionCutoff ==
    compaction.outputs # <<>> =>
        LET h == compaction.input
            out == compaction.outputs[1]
        IN /\ Len(out) = Len(h)
           /\ \A i \in 1..Len(h) : out[i] = Compacted(h, compaction.cutoff, i)
           /\ Len(h) <= compaction.cutoff => out = h

\* C19 witness: a pass that redacted one Function message and spared another
C19_Witness ==
    /\ compaction.outputs # <<>>
    /\ \E i, j \in 1..Len(compaction.input) :
          /\ i < j
          /\ compaction.input[i] = FunctionMessage("list_files", Text("tool output", "list_files"))
          /\ compaction.input[j] = compaction.input[i]
          /\ compaction.outputs[1][i].content = Cleaned
          /\ compaction.outputs[1][j] = compaction.input[j]

\* C20: compaction is idempotent: the compactor applied to its own output
\* gives that output again.
C20_CompactionIdempotent ==
    \A p \in 2..Len(compaction.outputs) :
        compaction.outputs[p] = compaction.outputs[p - 1]

\* C20 witness: a second pass over a sequence the first pass had changed
C20_Witness ==
    /\ Len(compaction.outputs) >= 2
    /\ compaction.outputs[1] # compaction.input

\* C21: compaction leaves the length and the order of the sequence, every
\* message's role, name and tool invocation, and the content of every System,
\* User and Assistant message as they were; a message that differs is a
\* Function message below the cutoff, and it differs in its content only.
C21_CompactionFrame ==
    \A p \in 1..Len(compaction.outputs) :
        LET h == compaction.input
            out == compaction.outputs[p]
        IN /\ Len(out) = Len(h)
           /\ \A i \in 1..Len(h) :
                 /\ out[i].role = h[i].role
                 /\ out[i].name = h[i].name
                 /\ out[i].function_call = h[i].function_call
                 /\ h[i].role \in {"system", "user", "assistant"} => out[i] = h[i]
                 /\ out[i] # h[i] => /\ h[i].role = "function"
                                     /\ Len(h) > compaction.cutoff
                                     /\ i <= Len(h) - compaction.cutoff

\* C21 witness: a pass that redacted a Function message and had a System
\* message and an Assistant message with its invocation below the cutoff too
C21_Witness ==
    /\ compaction.outputs # <<>>
    /\ \E i, j, k \in 1..(Len(compaction.input) - compaction.cutoff) :
          /\ compaction.input[i].role = "system"
          /\ IsAssistantCall(compaction.input[j])
          /\ j < k
          /\ compaction.input[k].role = "function"
          /\ compaction.outputs[1][k] # compaction.input[k]

\* ========================================= compaction and the Message Store
\* every Function message of h holds what its tool returned: a text about
\* that tool, never the marker
KeepsOutputs(h) ==
    \A i \in 1..Len(h) :
        h[i].role = "function"
        => /\ h[i].content.k # "[cleaned from history]"
           /\ h[i].content.a \in {h[i].name, RequiredParam(h[i].name)}

\* C22: compaction never changes the Message Store: however long the
\* conversation of the interactive loop grows, the store (and the history the
\* loop works on) holds the original content of every Function message, and
\* only the messages of the request in flight carry the marker, at the
\* Function messages older than the last ChatCutoff messages.
C22_StoreNeverCompacted ==
    /\ KeepsOutputs(messages)
    /\ \A l \in Loops :
          (Started(l) /\ Top(l).kind = "chat")
          => /\ KeepsOutputs(Top(l).history)
             /\ At(l, "awaiting")
                  => LET h == Top(l).history
                         req == RequestMessages(Top(l))
                     IN /\ Len(req) = Len(h)
                        /\ \A i \in 1..Len(h) :
                              req[i] = IF h[i].role = "function" /\ i <= Len(h) - ChatCutoff
                                       THEN [h[i] EXCEPT !.content = Cleaned]
                                       ELSE h[i]

\* C22 witness: a request in flight carries the marker at a Function message
\* that the store holds with its output
C22_Witness ==
    \E l \in Loops :
        /\ At(l, "awaiting")
        /\ Top(l).kind = "chat"
        /\ Len(Top(l).history) = Len(messages)
        /\ \E i \in 1..Len(messages) :
              /\ messages[i].role = "function"
              /\ messages[i].content = Text("tool output", "list_files")
              /\ RequestMessages(Top(l))[i].role = "function"
              /\ RequestMessages(Top(l))[i].content = Cleaned

\* ================================================= waiting for the answer
\* the dispatch of task l waits for the answer to its dialog
ConfirmationPending(l) == At(l, "confirm") /\ gate[l].value = None

\* the shell processes task l started
ExecutedBy(log, l) == SelectSeq(log, LAMBDA e : e.task = l)

\* C23: while a confirmation is pending and no answer is sent, the task stays
\* blocked in the receive: no step of the task completes the dispatch, runs the
\* command or moves the loop on, whatever else happens (the dialog shown or
\* discarded, other tasks running); once an answer is sent, the dispatch
\* completes.
C23_BlockedUntilAnswered ==
    /\ [][\A l \in Loops :
            ConfirmationPending(l)
            => /\ stack'[l] = stack[l]
               /\ ExecutedBy(executed', l) = ExecutedBy(executed, l)]_vars
    /\ \A l \in Loops :
          (At(l, "confirm") /\ gate[l].value # None) ~> At(l, "result")

\* C23 witness: a dispatch left waiting with its dialog discarded and no
\* answer sent
C23_Witness ==
    \E l \in Loops : ConfirmationPending(l) /\ gate[l].state = "discarded"

\* ==================================================== the lock of the store
\* a loop of the program awaits the response of its chat-completion request
AwaitsResponse(l) == At(l, "awaiting")

\* C24 (as the spec states it): in every loop of the program, run_headless
\* included, the lock of the Message Store is not held while the response of
\* a chat-completion request is awaited.
C24_NoLockAcrossAwait ==
    \A l \in Loops : AwaitsResponse(l) => lock = None

\* ======================================================= no iteration cap
\* the interactive loop of task l leaves its while loop in this step
EntersTerminal(l) == Started(l) /\ ~Terminal(l) /\ Terminal(l)'

\* the response that task l's loop gets in this step is a message without a
\* tool invocation, or the request failed
GetsPlainOrFailure(l) ==
    /\ At(l, "awaiting")
    /\ \/ TopNext(l).history = Top(l).history
       \/ /\ Len(TopNext(l).history) = Len(Top(l).history) + 1
          /\ ~IsAssistantCall(TopNext(l).history[Len(TopNext(l).history)])

\* C25: the agent loop has no iteration cap.  It leaves its while loop
\* exactly in the step that gets a message without a tool invocation or a
\* request failure, and in the step that gets the dispatch outcome Error or
\* Cancelled; after a tool invocation whose dispatch succeeded it sends the
\* next request, however many it has sent before.
C25_NoIterationCap ==
    /\ [][\A l \in Loops :
            EntersTerminal(l)
            => \/ GetsPlainOrFailure(l)
               \/ At(l, "result") /\ Top(l).outcome.t \in {"Error", "Cancelled"}]_vars
    /\ [][\A l \in Loops :
            (StepsFrom(l, "awaiting") /\ Depth(l) = 1 /\ GetsPlainOrFailure(l))
            => TopNext(l).pc \in {"finish", "panicked"}]_vars
    /\ [][\A l \in Loops :
            (StepsFrom(l, "result") /\ Depth(l) = 1)
            => IF Top(l).outcome.t = "Success"
               THEN /\ TopNext(l).pc = "awaiting"
                    /\ TopNext(l).rounds = Top(l).rounds + 1
               ELSE Terminal(l)']_vars

\* C25 witness: a loop that got a successfully dispatched tool invocation for
\* each of its requests is still running after more than a dozen round trips
C25_Witness ==
    \E l \in Loops :
        /\ At(l, "awaiting")
        /\ Top(l).rounds > 12
        /\ Top(l).rounds = requests + 1
        /\ Len(Top(l).history) = 2 * Top(l).rounds

\* ================================================== function definitions
\* C26 (as the spec states it): the function definition generated for a tool
\* lists every declared parameter in `required` and gives every declared
\* parameter an entry in `properties` whose type is "string" or "integer", so
\* that every name in `required` is a key of `properties`, also for a
\* parameter declared "optional string".
C26_RequiredHaveProperties ==
    \A i \in 1..Len(definition.outputs) :
        LET params == definition.parameters
            schema == definition.outputs[i]
        IN /\ schema.required = DOMAIN params
           /\ DOMAIN schema.properties = DOMAIN params
           /\ \A n \in DOMAIN schema.properties :
                 schema.properties[n].type \in {"string", "integer"}
           /\ schema.required \subseteq DOMAIN schema.properties

\* ========================================================= usage counters
\* C27: under every interleaving of concurrent increment calls each usage
\* counter never decreases, and no increment is lost: the counter equals the
\* sum of the arguments of the increments that completed.
C27_CountersMonotonic ==
    /\ [][\A field \in CounterFields : token_counter'[field] >= token_counter[field]]_vars
    /\ [](\A field \in CounterFields :
             token_counter[field] = incrementing.completed[field])

\* C27 witness: all increments were made, and one of them completed between
\* the entry and the fetch_add of another on the same counter
C27_Witness ==
    \E c \in Callers :
        LET call == incrementing.calls[c] IN
        /\ incrementing.made = MaxIncrements
        /\ call # NotIncrementing
        /\ call.count > 0
        /\ token_counter[call.field] > call.at_call

\* ======================================================= captured output
\* the text contents of the Assistant messages that the run added to the
\* history h, in their order
ProducedTexts(h) ==
    LET produced == SelectSeq(SubSeq(h, 3, Len(h)),
                              LAMBDA m : m.role = "assistant" /\ m.content # NoContent)
    IN [i \in 1..Len(produced) |-> produced[i].content]

\* the texts a failure of the run is reported with
IsFailureText(t) ==
    t.k \in {"Request Error", "JSON Error", "Error occurred in tool call"}

\* the run whose history is h ended on a plain Assistant message
EndedOnPlain(h) == h[Len(h)].role = "assistant" /\ ~IsAssistantCall(h[Len(h)])

\* out is the sequence texts joined by newlines
IsJoinOf(out, texts) ==
    /\ Len(out) = IF texts = <<>> THEN 0 ELSE 2 * Len(texts) - 1
    /\ \A i \in 1..Len(texts) : out[2 * i - 1] = texts[i]
    /\ \A i \in 1..(Len(texts) - 1) : out[2 * i] = Text("\n", "")

\* C28: a headless run with output capture returns the text contents of the
\* Assistant messages produced during the run, in their order, joined by
\* newlines, followed by the failure text if the run ended in a failure; a
\* run without capture returns the empty string.
C28_CapturedOutput ==
    returned.done =>
        LET h == stack[1][1].history
            texts == ProducedTexts(h)
        IN IF ~returned.capture_output
           THEN returned.output = <<>>
           ELSE IF EndedOnPlain(h)
           THEN IsJoinOf(returned.output, texts)
           ELSE \E t \in {returned.output[Len(returned.output)]} :
                   IsFailureText(t) /\ IsJoinOf(returned.output, Append(texts, t))

\* C28 witness: a captured run returned the texts of two Assistant messages
\* and the text of the failure it ended in
C28_Witness ==
    /\ returned.done
    /\ returned.capture_output
    /\ Len(returned.output) = 5
    /\ returned.output[1].k = "text"
    /\ returned.output[3].k = "text"
    /\ IsFailureText(returned.output[5])

\* ========================================================= the first message
\* C29: the first message of the Message Store is a System message in every
\* reachable state of a session, and no step puts a message before it or
\* another message in its place.
C29_SystemFirst ==
    /\ [](Len(messages) >= 1 /\ messages[1].role = "system")
    /\ [][messages'[1] = messages[1]]_vars

\* C29 witness: a store that grew by the messages of two chat submissions
\* still starts with the System message
C29_Witness ==
    /\ messages[1] = SystemMessage
    /\ \E i, j \in 2..Len(messages) :
          /\ i < j
          /\ messages[i] = UserMessage(1)
          /\ messages[j] = UserMessage(2)
          /\ j < Len(messages)

\* ================================================ invocations and results
\* in the message sequence req every Function message directly follows an
\* Assistant message that carries the invocation of the same tool
FunctionsFollowInvocations(req) ==
    \A i \in 1..Len(req) :
        req[i].role = "function"
        => /\ i > 1
           /\ IsAssistantCall(req[i - 1])
           /\ req[i - 1].function_call.name = req[i].name

\* task l runs a later user turn that was submitted after the turn before it
\* had got its final, plain response
LaterTurn(l) ==
    /\ l > 1
    /\ Terminal(l - 1)
    /\ LET h == Top(l).history
           u == UserIndex(h, l)
           g == Top(l - 1).history
       IN /\ IsPlainAssistant(g[Len(g)])
          /\ h[u - 1] = StoreAssistant(g[Len(g)])

\* C30 (as the spec states it): in every request of the interactive loop, in
\* the first user turn and in a later turn submitted after the turn before it
\* has ended, every Function message directly follows the Assistant message
\* that carries the invocation of that tool.
C30_FunctionFollowsInvocation ==
    \A l \in Loops :
        (/\ At(l, "awaiting")
         /\ Top(l).kind = "chat"
         /\ l = 1 \/ LaterTurn(l))
        => FunctionsFollowInvocations(RequestMessages(Top(l)))

\* ======================================================== the in-flight flag
\* a step of the spawned task of chat l, or of what the task awaits: the
\* service's answer, the dispatch, the tool, the end of the task
TaskStep(l) ==
    \/ Respond(l)
    \/ Dispatch(l)
    \/ ConfirmRecv(l)
    \/ RunTool(l)
    \/ SubStore(l)
    \/ SubClear(l)
    \/ HandleResult(l)
    \/ Finish(l)

\* the runtime runs every task that can take a step
TaskFairSpec == Spec /\ \A l \in Loops : WF_vars(TaskStep(l))

\* the interactive loop of task l got the outcome that ends its while loop: a
\* failed request, a plain message, the dispatch outcome Error or Cancelled
\* (the loop is past its break), or a response with an empty `choices` list
\* (the task panicked)
LoopOver(l) ==
    /\ Started(l)
    /\ Depth(l) = 1
    /\ Top(l).kind = "chat"
    /\ Top(l).pc \in {"finish", "panicked"}

\* C31 (as the spec states it): whatever outcome ends the while loop of an
\* interactive agent loop, a response with an empty `choices` list included,
\* the loop reaches Terminal and request_in_flight becomes false.
C31_FlagEventuallyCleared ==
    \A l \in Loops : LoopOver(l) ~> (Terminal(l) /\ ~request_in_flight)

\* a task of the session is still running: its loop was spawned and has not
\* stored false into the flag yet
Running(l) == Started(l) /\ Top(l).pc \notin {"done", "panicked"}

\* C32 (as the spec states it): request_in_flight is true in every state in
\* which an agent-loop task of the session is still running, also when chat
\* was called again before the loop of an earlier call had finished.
C32_FlagWhileRunning ==
    (\E l \in Loops : Running(l)) => request_in_flight

\* ============================================ in place and on a fresh copy
\* C33: with the same cutoff and the same responder, the headless loop, which
\* cleans its history in place before every request, and the interactive
\* loop, which cleans a fresh copy of its uncleaned history before every
\* request, send the same message sequence in every request of the run.
C33_SameRequests ==
    \A i \in 1..Len(twin.sent) : twin.sent[i].headless = twin.sent[i].interactive

\* C33 witness: the second request holds a Function message that the
\* headless loop had cleaned in place for its first request already and that
\* the interactive loop still keeps uncleaned in its history
C33_Witness ==
    /\ Len(twin.sent) = 2
    /\ \E j \in 1..Len(twin.sent[1].headless) :
          /\ twin.sent[1].headless[j].content = Cleaned
          /\ twin.sent[2].headless[j].content = Cleaned
          /\ twin.headless[j].content = Cleaned
          /\ twin.interactive[j].role = "function"
          /\ twin.interactive[j].content = Text("tool output", "list_files")

\* ================================================ the headless y/n prompt
\* the headless loop of task l is about to run run_shell_command with a
\* command
HeadlessShellRun(l) ==
    /\ At(l, "run")
    /\ Top(l).kind = "headless"
    /\ Top(l).call.name = "run_shell_command"
    /\ GetStringOk(Top(l).args, "command")

\* C34 (as the spec states it): in a headless session the y/n prompt decides
\* a run_shell_command invocation: when the line answered is anything but
\* "y" or "yes", the command is not executed and the dispatch outcome is
\* Success with the content "Command execution cancelled by user.", after
\* which the loop sends its next request.
C34_HeadlessPromptDecides ==
    /\ [][\A l \in Loops :
            (HeadlessShellRun(l) /\ stack'[l] # stack[l] /\ ~Accepts(script.stdin))
            => /\ executed' = executed
               /\ TopNext(l).pc = "result"
               /\ TopNext(l).outcome = CancelledByUser("run_shell_command")]_vars
    /\ [][\A l \in Loops :
            (/\ At(l, "result")
             /\ Top(l).kind = "headless"
             /\ Top(l).outcome = CancelledByUser("run_shell_command")
             /\ stack'[l] # stack[l])
            => TopNext(l).pc = "awaiting"]_vars

\* ==================================================== advertised tool names
\* C35 (as the spec states it): the tool names a loop advertises in the
\* function list of its requests, computed once at the entry of the loop, are
\* the names of the registry that each dispatch of that loop builds, so every
\* advertised name resolves.
C35_AdvertisedResolves ==
    \A l \in Loops :
        At(l, "dispatch")
        => /\ Top(l).functions \subseteq GetToolRegistry(in_subminerve_context)
           /\ Top(l).functions = GetToolRegistry(in_subminerve_context)

\* ============================================= replace_content, no file
\* the call names a path, and no file is at the path
OnMissingFile ==
    /\ replacing.replies # <<>>
    /\ replacing.args.filepath = Some(<<"f">>)
    /\ replacing.before = Missing
    /\ replacing.writable

\* C36 (as the spec states it): replace_content called for a file that does
\* not exist creates the file with new_content and reports success when
\* old_content is empty, and reports "File not found" and creates nothing
\* when old_content is not empty.
C36_CreatesOnEmptyOld ==
    OnMissingFile =>
        IF GetStringOptional(replacing.args.old_content) = <<>>
        THEN /\ replacing.replies = <<Text("Successfully created new file", "")>>
             /\ replacing.file = FileWith(GetStringOptional(replacing.args.new_content))
        ELSE /\ replacing.replies = <<Text("[Error] File not found", "")>>
             /\ replacing.file = Missing

\* ========================================================= prompt history
\* no prompt is stored twice in a row
NoEqualNeighbours(prompts) ==
    \A i \in 1..(Len(prompts) - 1) : prompts[i] # prompts[i + 1]

\* C37 (as the spec states it): after every call of add_prompt the cursor is
\* reset (index = None), the stored list ends with the given prompt and has
\* no two equal adjacent entries, also when the prompt equals the last stored
\* one while the cursor is inside the history.
C37_AddPromptResets ==
    LET calls == history_tracker.calls IN
    (calls # <<>> /\ calls[Len(calls)].op = "add_prompt")
    => /\ history_tracker.index = NoneOf(0)
       /\ history_tracker.previous_prompts # <<>>
       /\ history_tracker.previous_prompts[Len(history_tracker.previous_prompts)]
             = calls[Len(calls)].prompt
       /\ NoEqualNeighbours(history_tracker.previous_prompts)

\* the larger and the smaller of two numbers
Max(a, b) == IF a >= b THEN a ELSE b
Min(a, b) == IF a <= b THEN a ELSE b

\* the calls p .. p + k - 1 are all calls of op
AllCalls(calls, p, k, op) ==
    /\ p + k - 1 <= Len(calls)
    /\ \A i \in p..(p + k - 1) : calls[i].op = op

\* C38: on a non-empty list of n prompts, k >= 1 calls of get_previous_prompt
\* from the fresh-input state return the prompts from the newest towards the
\* oldest and stay on the oldest once reached; the min(k, n) calls of
\* get_next_prompt that follow walk back towards the newest, and the last of
\* them returns the empty string and restores the fresh-input state.
C38_Navigation ==
    LET calls == history_tracker.calls
        prompts == history_tracker.previous_prompts
    IN \A p \in 1..Len(calls) : \A k \in 1..Len(calls) :
          (/\ AllCalls(calls, p, k, "get_previous_prompt")
           /\ ~calls[p].before.some
           /\ calls[p].len > 0)
          => LET n == calls[p].len IN
             /\ \A i \in 1..k :
                   /\ calls[p + i - 1].index = Some(Max(n - i, 0))
                   /\ calls[p + i - 1].returned = Some(prompts[Max(n - i, 0) + 1])
             /\ \A j \in 1..Min(k, n) :
                   AllCalls(calls, p + k, j, "get_next_prompt")
                   => LET call == calls[p + k + j - 1] IN
                      IF j = Min(k, n)
                      THEN call.returned = Some("") /\ call.index = NoneOf(0)
                      ELSE /\ call.index = Some(Max(n - k, 0) + j)
                           /\ call.returned = Some(prompts[Max(n - k, 0) + j + 1])

\* C38 witness: on a list of two prompts three calls of get_previous_prompt,
\* the third staying on the oldest, and two calls of get_next_prompt, the
\* second back at the fresh input
C38_Witness ==
    LET calls == history_tracker.calls IN
    /\ Len(calls) = 5
    /\ calls[1].len = 2
    /\ AllCalls(calls, 1, 3, "get_previous_prompt")
    /\ AllCalls(calls, 4, 2, "get_next_prompt")
    /\ calls[2].returned = calls[3].returned
    /\ calls[4].returned = Some(history_tracker.previous_prompts[2])
    /\ calls[5].returned = Some("")
    /\ ~history_tracker.index.some

\* C39: in every reachable state of the HistoryTracker the cursor is None or
\* Some(i) with i less than the number of stored prompts, and no navigation
\* call on a non-empty list returned None.
C39_CursorInRange ==
    /\ history_tracker.index.some
          => history_tracker.index.v < Len(history_tracker.previous_prompts)
    /\ \A p \in 1..Len(history_tracker.calls) :
          LET call == history_tracker.calls[p] IN
          (call.op \in {"get_previous_prompt", "get_next_prompt"} /\ call.len > 0)
          => call.returned.some

\* C39 witness: the cursor was moved onto the newest of the prompts by
\* get_next_prompt after prompts were added and the cursor had walked back
C39_Witness ==
    LET calls == history_tracker.calls IN
    /\ Len(calls) >= 4
    /\ \E p \in 1..Len(calls) : calls[p].op = "add_prompt" /\ calls[p].len > 1
    /\ calls[Len(calls)].op = "get_next_prompt"
    /\ calls[Len(calls)].before.some
    /\ history_tracker.index = Some(Len(history_tracker.previous_prompts) - 1)

====
